---- MODULE Spec2Model ----
(***************************************************************************)
(* Risk scoring, fraud detection, registration guard, event access tokens  *)
(* and the audit log of the event-management API.                          *)
(*                                                                         *)
(* Times are milliseconds, as Date.now() gives them.  Risk scores are held *)
(* in half points (Pt half points make one point), because the only        *)
(* fractional weight of the scorer is 0.5.                                 *)
(***************************************************************************)
EXTENDS Integers, Sequences, FiniteSets, TLC

\* ------------------------------------------------------------------------
\* Bounds of the model
\* ------------------------------------------------------------------------
MaxActivities == 5      \* longest activity list handed to the scorer
MaxTicks == 3           \* how often the clock advances
MaxEvents == 11         \* events in the collection
MaxCrowd == 6           \* users that share one address
MaxLog == 2             \* documents in the audit collection
MaxDays == 2            \* days that pass over the audit collection
MaxCreated == 1         \* events created through the event service
MaxHistory == 3         \* logged events of one user
MaxFlights == 2         \* composite checks called one after the other
MaxOverflow == 1        \* audit events of a user beyond one page of getLogs
MaxRequests == 2        \* registration requests in flight at once
MaxStored == 3          \* events in the in-memory store of /crud

\* ------------------------------------------------------------------------
\* Constants of the program
\* ------------------------------------------------------------------------
DayMs == 86400000       \* 24 * 60 * 60 * 1000
MinuteMs == 60000
Pt == 2                 \* half points per point (weight 0.5 == 1 half point)
YoungAccountDays == 30
RecentAccountDays == 60
YoungAccountWeight == 3
RecentAccountWeight == 2
FailedLoginCap == 2
MaxDistinctLocations == 3
MaxDistinctDevices == 3
MaxIrregularGaps == 2
MaxRiskScore == 10
LowCeiling == 2
MediumCeiling == 5
HighCeiling == 7

None == "none"          \* undefined / null / a missing field

HourMs == 60 * MinuteMs
T0 == 3 * DayMs         \* the instant at which the scorer inputs are drawn

Min(a, b) == IF a < b THEN a ELSE b
Max(a, b) == IF a > b THEN a ELSE b

\* An audit document as the services read it.
Entry(uid, action, success, location, userAgent, ts, ip) ==
  [userId |-> uid, action |-> action, success |-> success,
   details |-> [location |-> location, userAgent |-> userAgent],
   timestamp |-> ts, ipAddress |-> ip]

VARIABLES
  now,          \* the clock, Date.now()
  subject,      \* scorer input: the account document, or NoUser
  activities,   \* scorer input: the list of audit events
  assessment,   \* scorer output: [outcome, score, level]
  levelsSeen,   \* levels produced so far by a series of assessments
  ticks,        \* how often the clock has advanced
  issued,       \* the last token generateEventAccessToken returned
  validation,   \* the last call of validateEventAccessToken
  users,        \* the users collection: id -> document
  events,       \* the events collection: id -> document
  registrations,\* history: who registered for which event, and when
  audit,        \* the audit_logs collection, in insertion order
  cleared,      \* history: the requests performEventSecurityCheck allowed
  flight,       \* the composite check in flight: its sub-checks, how it settled
  requests,     \* the registration requests in flight
  crud,         \* the in-memory events of the /crud routes
  earlier,      \* history: the call completed before the last one
  call          \* the last completed service call and what it gave

scoreVars == <<subject, activities, assessment, levelsSeen>>
tokenVars == <<issued, validation>>
storeVars == <<users, events, registrations, audit>>
serviceVars == <<storeVars, call, cleared>>
\* What the process holds in memory, and the history of its calls.
processVars == <<flight, requests, crud, earlier>>
vars == <<now, ticks, scoreVars, tokenVars, serviceVars, processVars>>

\* ------------------------------------------------------------------------
\* FraudDetectionService.calculateRiskScore / determineRiskLevel
\* ------------------------------------------------------------------------

\* accountAgeInDays < days, for an account created at a whole-day instant
\* createdDay * DayMs:  (now - createdAt) / DayMs < days.
accountAgeBelow(user, clock, days) ==
  (clock \div DayMs) - user.createdDay < days

failedLogins(acts) ==
  SelectSeq(acts, LAMBDA log : log.action = "LOGIN_ATTEMPT" /\ ~log.success)

\* new Set(activities.map(log => log.details?.location).filter(Boolean))
uniqueLoginLocations(acts) ==
  {acts[i].details.location : i \in 1..Len(acts)} \ {None}

\* new Set(activities.map(log => log.details?.userAgent).filter(Boolean))
uniqueDevices(acts) ==
  {acts[i].details.userAgent : i \in 1..Len(acts)} \ {None}

loginTimestamps(acts) ==
  LET logins == SelectSeq(acts, LAMBDA log : log.action = "LOGIN_ATTEMPT")
  IN  [i \in 1..Len(logins) |-> logins[i].timestamp]

Abs(x) == IF x < 0 THEN -x ELSE x

\* index > 0 ? Math.abs(time - loginTimestamps[index - 1]) : 0
timeDifferences(acts) ==
  LET ts == loginTimestamps(acts)
  IN  [i \in 1..Len(ts) |-> IF i > 1 THEN Abs(ts[i] - ts[i - 1]) ELSE 0]

irregularTimePatterns(acts) ==
  SelectSeq(timeDifferences(acts), LAMBDA diff : diff < MinuteMs \/ diff > DayMs)

\* Mutant: every failed login adds half a point, without a cap.
rawRiskScore_failedUncapped(user, acts, clock) ==
    (IF accountAgeBelow(user, clock, YoungAccountDays)
       THEN YoungAccountWeight * Pt ELSE 0)
  + (IF accountAgeBelow(user, clock, RecentAccountDays)
       THEN RecentAccountWeight * Pt ELSE 0)
  + Len(failedLogins(acts))
  + (IF Cardinality(uniqueLoginLocations(acts)) > MaxDistinctLocations
       THEN Pt ELSE 0)
  + (IF Cardinality(uniqueDevices(acts)) > MaxDistinctDevices
       THEN Pt ELSE 0)
  + (IF Len(irregularTimePatterns(acts)) > MaxIrregularGaps
       THEN Pt ELSE 0)

\* The additive score before normalisation, in half points.
rawRiskScore(user, acts, clock) ==
    (IF accountAgeBelow(user, clock, YoungAccountDays)
       THEN YoungAccountWeight * Pt ELSE 0)
  + (IF accountAgeBelow(user, clock, RecentAccountDays)
       THEN RecentAccountWeight * Pt ELSE 0)
  + Min(Len(failedLogins(acts)), FailedLoginCap * Pt)
  + (IF Cardinality(uniqueLoginLocations(acts)) > MaxDistinctLocations
       THEN Pt ELSE 0)
  + (IF Cardinality(uniqueDevices(acts)) > MaxDistinctDevices
       THEN Pt ELSE 0)
  + (IF Len(irregularTimePatterns(acts)) > MaxIrregularGaps
       THEN Pt ELSE 0)

\* Mutant: the failed-login term is not capped and the result is returned
\* without Math.min(Math.max(riskScore, 0), 10).
calculateRiskScore_unbounded(user, acts, clock) ==
    rawRiskScore(user, acts, clock)
  - Min(Len(failedLogins(acts)), FailedLoginCap * Pt)
  + Len(failedLogins(acts))

\* Mutant: the two account-age tests are made exclusive (else if), so that
\* a young account gets 3 and not 3 + 2.
calculateRiskScore_exclusive(user, acts, clock) ==
  Min(Max(rawRiskScore(user, acts, clock)
            - (IF accountAgeBelow(user, clock, YoungAccountDays)
                 THEN RecentAccountWeight * Pt ELSE 0), 0),
      MaxRiskScore * Pt)

\* return Math.min(Math.max(riskScore, 0), 10), in half points
calculateRiskScore(user, acts, clock) ==
  Min(Max(rawRiskScore(user, acts, clock), 0), MaxRiskScore * Pt)

Levels == <<"LOW", "MEDIUM", "HIGH", "CRITICAL">>

\* Mutant: the MEDIUM and HIGH bounds are swapped.
determineRiskLevel_swapped(riskScore) ==
  IF riskScore <= LowCeiling * Pt THEN "LOW"
  ELSE IF riskScore <= HighCeiling * Pt THEN "MEDIUM"
  ELSE IF riskScore <= MediumCeiling * Pt THEN "HIGH"
  ELSE "CRITICAL"

determineRiskLevel(riskScore) ==
  IF riskScore <= LowCeiling * Pt THEN "LOW"
  ELSE IF riskScore <= MediumCeiling * Pt THEN "MEDIUM"
  ELSE IF riskScore <= HighCeiling * Pt THEN "HIGH"
  ELSE "CRITICAL"

\* ------------------------------------------------------------------------
\* Inputs of the scorer
\* ------------------------------------------------------------------------
\* Accounts created 60, 59, 30, 29 and 10 days before T0.
CreatedDays == {(T0 \div DayMs) - d : d \in {60, 59, 30, 29, 10}}

LoginShapes ==
  { Entry(1, "LOGIN_ATTEMPT", FALSE, None, None, T0 - 1000, "ip1"),
    Entry(1, "LOGIN_ATTEMPT", TRUE, None, None, T0 - 4 * HourMs, "ip1") }

ActivityShapes ==
  LoginShapes \cup
  { Entry(1, "LOGIN_ATTEMPT", FALSE, "L1", "D1", T0 - 30000, "ip1"),
    Entry(1, "LOGIN_ATTEMPT", FALSE, "L2", "D2", T0 - HourMs, "ip1"),
    Entry(1, "LOGIN_ATTEMPT", FALSE, "L3", "D3", T0 - 2 * HourMs, "ip2"),
    Entry(1, "LOGIN_ATTEMPT", FALSE, "L4", "D4", T0 - 2 * DayMs, "ip2"),
    Entry(1, "LOGIN_ATTEMPT", TRUE, "L1", "D1", T0 - 3 * HourMs, "ip1"),
    Entry(1, "API_ACCESS", FALSE, "L4", "D1", T0, "ip2") }

Accounts == [found : {TRUE}, createdDay : CreatedDays]

\* User.findById(userId) of an id no account has: null.
NoUser == [found |-> FALSE, createdDay |-> 0]

\* No call of the scorer has completed on the current inputs.
NoAssessment == [outcome |-> "pending", score |-> 0, level |-> None]

ScoreInit ==
  /\ subject \in Accounts \cup {NoUser}
  /\ activities = <<>>
  /\ assessment = NoAssessment
  /\ levelsSeen = {}

\* What a caller of the scorer gets: the score and its level, or the
\* TypeError of user.createdAt when the account lookup gave null.
assess(user, acts, clock) ==
  IF ~user.found
    THEN [outcome |-> "threw", score |-> 0, level |-> None]
    ELSE LET riskScore == calculateRiskScore(user, acts, clock)
         IN  [outcome |-> "returned", score |-> riskScore,
              level |-> determineRiskLevel(riskScore)]

AddActivityFrom(shapes) ==
  /\ Len(activities) < MaxActivities
  /\ \E a \in shapes : activities' = Append(activities, a)
  /\ assessment' = NoAssessment
  /\ UNCHANGED <<now, ticks, tokenVars, serviceVars, processVars, subject, levelsSeen>>

\* One more event in the list the scorer is given.
AddActivity == AddActivityFrom(ActivityShapes)

\* One more login attempt in the list the scorer is given.
AddLogin == AddActivityFrom(LoginShapes)

\* riskScore = calculateRiskScore(user, docs); riskLevel = determineRiskLevel(riskScore)
Score ==
  /\ assessment = NoAssessment
  /\ assessment' = assess(subject, activities, now)
  /\ UNCHANGED <<now, ticks, tokenVars, serviceVars, processVars, subject, activities, levelsSeen>>

\* The same call in a series of assessments whose levels are collected.
ScoreSeries ==
  /\ assessment = NoAssessment
  /\ subject.found
  /\ assessment' = assess(subject, activities, now)
  /\ levelsSeen' = levelsSeen \cup {assessment'.level}
  /\ UNCHANGED <<now, ticks, tokenVars, serviceVars, processVars, subject, activities>>

\* The series goes on with another account and a fresh history.
NextSubject ==
  /\ assessment # NoAssessment
  /\ subject' \in Accounts
  /\ activities' = <<>>
  /\ assessment' = NoAssessment
  /\ UNCHANGED <<now, ticks, tokenVars, serviceVars, processVars, levelsSeen>>

\* ------------------------------------------------------------------------
\* EventSecurityService.generateEventAccessToken / validateEventAccessToken
\* ------------------------------------------------------------------------
TokenEventIds == {1, 2}
CallerIds == {1, 2}
EVENT_TOKEN_SECRET == "secret"     \* process.env.EVENT_TOKEN_SECRET, fixed

\* sha256(JSON.stringify({eventId, userId, timestamp}) + secret) as hex,
\* taken as collision-free: the digest stands for the text it was made of.
tokenHash(eventId, userId, timestamp) ==
  <<eventId, userId, timestamp, EVENT_TOKEN_SECRET>>

NoToken == [accessToken |-> <<>>, expiresAt |-> 0, eventId |-> 0, userId |-> 0]
NoValidation ==
  [token |-> <<>>, eventId |-> 0, userId |-> 0, at |-> 0, result |-> FALSE]

TokenInit == issued = NoToken /\ validation = NoValidation

\* Mutant: the hash leaves the timestamp out of the payload.
validateEventAccessToken_noTimestamp(token, eventId, userId, clock) ==
  <<token[1], token[2], token[4]>> = <<eventId, userId, EVENT_TOKEN_SECRET>>

\* Mutant: the hash leaves the userId out of the payload.
validateEventAccessToken_noUserId(token, eventId, userId, clock) ==
  <<token[1], token[3], token[4]>> = <<eventId, clock, EVENT_TOKEN_SECRET>>

\* return token === expectedToken, the expected token hashed with Date.now()
validateEventAccessToken(token, eventId, userId, clock) ==
  token = tokenHash(eventId, userId, clock)

\* generateEventAccessToken(eventId, userId).  Date.now() is read twice, for
\* the payload and for expiresAt; the clock may advance a millisecond between.
GenerateToken ==
  \E eventId \in TokenEventIds, userId \in CallerIds, d \in {0, 1} :
    /\ d = 1 => ticks < MaxTicks
    /\ issued' = [accessToken |-> tokenHash(eventId, userId, now),
                  expiresAt |-> now + d + DayMs,
                  eventId |-> eventId, userId |-> userId]
    /\ now' = now + d
    /\ ticks' = ticks + d
    /\ UNCHANGED <<validation, scoreVars, serviceVars, processVars>>

\* validateEventAccessToken(token, eventId, userId) on the issued token.
ValidateToken ==
  /\ issued # NoToken
  /\ \E eventId \in TokenEventIds, userId \in CallerIds :
       validation' =
         [token |-> issued.accessToken, eventId |-> eventId, userId |-> userId,
          at |-> now,
          result |-> validateEventAccessToken(issued.accessToken, eventId, userId, now)]
  /\ UNCHANGED <<now, ticks, issued, scoreVars, serviceVars, processVars>>

\* Time passes: a millisecond, an hour or a day.
Tick ==
  /\ ticks < MaxTicks
  /\ \E step \in {1, HourMs, DayMs} : now' = now + step
  /\ ticks' = ticks + 1
  /\ UNCHANGED <<tokenVars, scoreVars, serviceVars, processVars>>

\* A day passes.
NextDay ==
  /\ ticks < MaxDays
  /\ now' = now + DayMs
  /\ ticks' = ticks + 1
  /\ UNCHANGED <<tokenVars, scoreVars, serviceVars, processVars>>

\* ------------------------------------------------------------------------
\* The collections the services read and write
\* ------------------------------------------------------------------------
InSeq(x, seq) == \E i \in 1..Len(seq) : seq[i] = x

\* User.findById(userId): the document, or null.
findUser(userId) == IF userId \in DOMAIN users THEN users[userId] ELSE NoUser

NoEvent ==
  [found |-> FALSE, createdAt |-> 0, participants |-> <<>>, capacity |-> 0,
   status |-> None, organizer |-> 0]

\* Event.findById(eventId): the document, or null.
findEvent(eventId) == IF eventId \in DOMAIN events THEN events[eventId] ELSE NoEvent

\* The enum of AuditLogSchema.action.
AuditActions ==
  {"LOGIN_ATTEMPT", "LOGIN_SUCCESS", "LOGIN_FAILURE", "LOGOUT",
   "PASSWORD_CHANGE", "PASSWORD_RESET", "USER_REGISTRATION",
   "USER_PROFILE_UPDATE", "USER_ROLE_CHANGE", "2FA_ENABLE", "2FA_DISABLE",
   "2FA_VERIFY", "OAUTH_LOGIN", "EVENT_CREATE", "EVENT_UPDATE",
   "EVENT_DELETE", "EVENT_REGISTRATION", "EVENT_CANCELLATION", "API_ACCESS",
   "PERMISSION_DENIED", "SYSTEM_ERROR"}

\* The options of a log call; userId 0 stands for a call that passes none.
LogOptions(userId, action, success, location, userAgent, ip) ==
  [userId |-> userId, action |-> action, success |-> success,
   location |-> location, userAgent |-> userAgent, ipAddress |-> ip]

\* Validation of the document on save: user.id is required and action must
\* be one of the enum.
auditDocValid(options) ==
  options.userId # 0 /\ options.action \in AuditActions

\* Mutant: the schema has no enum, every action passes validation.
log_anyAction(store, options, up, clock) ==
  IF up /\ options.userId # 0
    THEN [store |-> Append(store,
                     Entry(options.userId, options.action, options.success,
                           options.location, options.userAgent, clock,
                           options.ipAddress)),
          raised |-> FALSE]
    ELSE [store |-> store, raised |-> FALSE]

\* Mutant: the catch block re-throws, so a failed save reaches the caller.
log_rethrows(store, options, up, clock) ==
  IF up /\ auditDocValid(options)
    THEN [store |-> Append(store,
                     Entry(options.userId, options.action, options.success,
                           options.location, options.userAgent, clock,
                           options.ipAddress)),
          raised |-> FALSE]
    ELSE [store |-> store, raised |-> TRUE]

\* Mutant: the save replaces the newest stored document instead of adding one.
log_overwrites(store, options, up, clock) ==
  IF up /\ auditDocValid(options)
    THEN [store |-> (IF store = <<>> THEN <<>> ELSE SubSeq(store, 1, Len(store) - 1))
                    \o <<Entry(options.userId, options.action, options.success,
                               options.location, options.userAgent, clock,
                               options.ipAddress)>>,
          raised |-> FALSE]
    ELSE [store |-> store, raised |-> FALSE]

\* AuditLogService.log(options): the document is saved with timestamp
\* Date.now(); when the save fails (validation, or the store is not up) the
\* error is written to the console and not re-thrown.
log(store, options, up, clock) ==
  IF up /\ auditDocValid(options)
    THEN [store |-> Append(store,
                     Entry(options.userId, options.action, options.success,
                           options.location, options.userAgent, clock,
                           options.ipAddress)),
          raised |-> FALSE]
    ELSE [store |-> store, raised |-> FALSE]

\* What a service call gives: it returned res or it threw, and the audit
\* collection as its log calls left it.
Returned(res, store) == [outcome |-> "returned", res |-> res, store |-> store]
Threw(store) == [outcome |-> "threw", res |-> <<>>, store |-> store]

\* ------------------------------------------------------------------------
\* EventSecurityService: the registration guard
\* ------------------------------------------------------------------------
RegistrationLimit == 10
SameIpLimit == 5
NewAccountDays == 30
NewAccountRisk == 2
FewEventsBelow == 3
RateLimitMessage == "Registration limit exceeded. Please try again later."

\* Event.countDocuments({participants: userId, createdAt: {$gte: twentyFourHoursAgo}})
recentRegistrations(userId) ==
  Cardinality({e \in DOMAIN events :
                 /\ InSeq(userId, events[e].participants)
                 /\ events[e].createdAt >= now - DayMs})

\* checkRegistrationRateLimit(userId, eventId).  db: the query succeeds;
\* up: the audit store accepts writes.
checkRegistrationRateLimit(userId, eventId, db, up) ==
  IF ~db THEN Threw(audit)
  ELSE IF recentRegistrations(userId) >= RegistrationLimit
    THEN LET w == log(audit,
                      LogOptions(userId, "REGISTRATION_RATE_LIMIT_EXCEEDED",
                                 FALSE, None, None, None), up, now)
         IN  IF w.raised THEN Threw(w.store)
             ELSE Returned([allowed |-> FALSE, message |-> RateLimitMessage],
                           w.store)
    ELSE Returned([allowed |-> TRUE, message |-> None], audit)

\* The score of assessRegistrationRisk, in whole points.
registrationRiskScore(user, event) ==
    (IF accountAgeBelow(user, now, NewAccountDays) THEN NewAccountRisk ELSE 0)
  + (IF user.registeredEvents < FewEventsBelow THEN 1 ELSE 0)
    \* participants.length / capacity > 0.9; NaN when capacity is not set
  + (IF event.capacity # 0
        /\ 10 * Len(event.participants) > 9 * event.capacity THEN 1 ELSE 0)

registrationRiskLevel(riskScore) ==
  IF riskScore > 3 THEN "HIGH"
  ELSE IF riskScore > 1 THEN "MEDIUM"
  ELSE "LOW"

\* Mutant: additional verification is asked for level HIGH only.
assessRegistrationRisk_highOnly(userId, eventId, db, up) ==
  LET user == findUser(userId)
      event == findEvent(eventId)
  IN  IF ~db \/ ~user.found \/ ~event.found THEN Threw(audit)
      ELSE LET riskScore == registrationRiskScore(user, event)
               riskLevel == registrationRiskLevel(riskScore)
           IN  Returned([riskLevel |-> riskLevel, riskScore |-> riskScore,
                         requiresAdditionalVerification |-> riskLevel = "HIGH"],
                        audit)

\* assessRegistrationRisk(userId, eventId).  A null user or event makes the
\* field access throw a TypeError, which the catch block re-throws.
assessRegistrationRisk(userId, eventId, db, up) ==
  LET user == findUser(userId)
      event == findEvent(eventId)
  IN  IF ~db \/ ~user.found \/ ~event.found THEN Threw(audit)
      ELSE LET riskScore == registrationRiskScore(user, event)
               riskLevel == registrationRiskLevel(riskScore)
               w == log(audit,
                        LogOptions(userId, "REGISTRATION_RISK_ASSESSMENT",
                                   TRUE, None, None, None), up, now)
           IN  IF w.raised THEN Threw(w.store)
               ELSE Returned([riskLevel |-> riskLevel, riskScore |-> riskScore,
                              requiresAdditionalVerification |-> riskLevel # "LOW"],
                             w.store)

\* The participants of the event joined with their user documents
\* ($unwind, $lookup, $unwind): one entry per participant that has one.
participantDetails(event) ==
  {i \in 1..Len(event.participants) : event.participants[i] \in DOMAIN users}

\* $group by participantDetails.contactInfo.ipAddress, registrationCount > 5
suspiciousGroups(event) ==
  LET joined == participantDetails(event)
      ipOf(i) == users[event.participants[i]].ipAddress
      count(ip) == Cardinality({i \in joined : ipOf(i) = ip})
  IN  {[ip |-> ip, registrationCount |-> count(ip),
        users |-> {event.participants[i] : i \in {j \in joined : ipOf(j) = ip}}]
         : ip \in {x \in {ipOf(i) : i \in joined} : count(x) > SameIpLimit}}

\* detectSuspiciousRegistrations(eventId).  The pipeline is built with
\* mongoose.Types.ObjectId, a name this file does not import: db also
\* stands for that name being bound when the call is made.
detectSuspiciousRegistrations(eventId, db) ==
  IF ~db THEN Threw(audit)
  ELSE LET registrations_ == suspiciousGroups(findEvent(eventId))
       IN  Returned([suspiciousRegistrations |-> registrations_,
                     potentialFraud |-> registrations_ # {}], audit)

\* Mutant: a HIGH risk level blocks the registration as well.
performEventSecurityCheck_riskBlocks(userId, eventId, db, up) ==
  LET rateLimit == checkRegistrationRateLimit(userId, eventId, db, up)
      riskAssessment == assessRegistrationRisk(userId, eventId, db, up)
      suspiciousRegistrations == detectSuspiciousRegistrations(eventId, db)
  IN  IF \/ rateLimit.outcome = "threw"
         \/ riskAssessment.outcome = "threw"
         \/ suspiciousRegistrations.outcome = "threw"
        THEN Threw(riskAssessment.store)
        ELSE Returned(
               [allowed |-> /\ rateLimit.res.allowed
                            /\ ~suspiciousRegistrations.res.potentialFraud
                            /\ riskAssessment.res.riskLevel # "HIGH",
                rateLimit |-> rateLimit.res,
                riskAssessment |-> riskAssessment.res,
                suspiciousRegistrations |-> suspiciousRegistrations.res],
               riskAssessment.store)

\* performEventSecurityCheck(userId, eventId): Promise.all of the three
\* checks; it rejects when one of them does.  Of the three only the rate
\* limit and the risk assessment write to the audit log, and neither of
\* their documents passes validation, so the collection each leaves is the
\* one it found.
performEventSecurityCheck(userId, eventId, db, up) ==
  LET rateLimit == checkRegistrationRateLimit(userId, eventId, db, up)
      riskAssessment == assessRegistrationRisk(userId, eventId, db, up)
      suspiciousRegistrations == detectSuspiciousRegistrations(eventId, db)
  IN  IF \/ rateLimit.outcome = "threw"
         \/ riskAssessment.outcome = "threw"
         \/ suspiciousRegistrations.outcome = "threw"
        THEN Threw(riskAssessment.store)
        ELSE Returned(
               [allowed |-> /\ rateLimit.res.allowed
                            /\ ~suspiciousRegistrations.res.potentialFraud,
                rateLimit |-> rateLimit.res,
                riskAssessment |-> riskAssessment.res,
                suspiciousRegistrations |-> suspiciousRegistrations.res],
               riskAssessment.store)

\* ------------------------------------------------------------------------
\* AuditLogService: getLogs, generateSecurityReport, detectAnomalies
\* ------------------------------------------------------------------------
PageLimit == 50
ReportDays == 30
FailureCountLimit == 5

RemoveAt(seq, i) == SubSeq(seq, 1, i - 1) \o SubSeq(seq, i + 1, Len(seq))

\* sort = {timestamp: -1}; documents with equal timestamps stay in insertion
\* order.
RECURSIVE sortByTimestampDesc(_)
sortByTimestampDesc(seq) ==
  IF seq = <<>> THEN <<>>
  ELSE LET i == CHOOSE i \in 1..Len(seq) :
                  \A j \in 1..Len(seq) :
                    \/ seq[j].timestamp < seq[i].timestamp
                    \/ seq[j].timestamp = seq[i].timestamp /\ j >= i
       IN  <<seq[i]>> \o sortByTimestampDesc(RemoveAt(seq, i))

\* The filters its callers hand to getLogs: 'user.id' (0: not given),
\* timestamp.$gte (0: not given) and success: false.
Filters(userId, since, failedOnly) ==
  [userId |-> userId, since |-> since, failedOnly |-> failedOnly]

\* AuditLog.find(filters)
matches(d, filters) ==
  /\ filters.userId # 0 => d.userId = filters.userId
  /\ d.timestamp >= filters.since
  /\ filters.failedOnly => ~d.success

\* Mutant: the page is cut after the first document.
getLogs_firstOnly(filters, db) ==
  IF ~db THEN Threw(audit)
  ELSE LET found == sortByTimestampDesc(
                      SelectSeq(audit, LAMBDA d : matches(d, filters)))
       IN  Returned([kind |-> "page",
                     docs |-> SubSeq(found, 1, Min(Len(found), 1)),
                     totalDocs |-> Len(found), limit |-> PageLimit, page |-> 1],
                    audit)

\* getLogs(filters, options) with the options its callers pass: page 1 of
\* AuditLog.paginate, at most `limit` = 50 documents, newest first.  Any
\* other key of options ($group) is never read.  The result is the page
\* object of the paginate plugin, which holds the documents in docs.
getLogs(filters, db) ==
  IF ~db THEN Threw(audit)
  ELSE LET found == sortByTimestampDesc(
                      SelectSeq(audit, LAMBDA d : matches(d, filters)))
       IN  Returned([kind |-> "page",
                     docs |-> SubSeq(found, 1, Min(Len(found), PageLimit)),
                     totalDocs |-> Len(found), limit |-> PageLimit, page |-> 1],
                    audit)

\* timestamp >= clock - days days (setDate(getDate() - days))
withinDays(timestamp, clock, days) ==
  LET d == clock - timestamp
  IN  d \div DayMs < days \/ (d \div DayMs = days /\ d % DayMs = 0)

\* generateSecurityReport(timeframe = 30): the documents of the timeframe
\* grouped by action; successRate is kept as the pair it is the quotient of.
generateSecurityReport(db) ==
  IF ~db THEN Threw(audit)
  ELSE LET recent == SelectSeq(audit, LAMBDA d : withinDays(d.timestamp, now, ReportDays))
           of(a) == SelectSeq(recent, LAMBDA d : d.action = a)
       IN  Returned(
             [timeframe |-> ReportDays,
              actionBreakdown |->
                {[action |-> a,
                  totalCount |-> Len(of(a)),
                  successCount |-> Len(SelectSeq(of(a), LAMBDA d : d.success)),
                  failureCount |-> Len(SelectSeq(of(a), LAMBDA d : ~d.success)),
                  uniqueUsers |-> {of(a)[i].userId : i \in 1..Len(of(a))}]
                 : a \in {recent[i].action : i \in 1..Len(recent)}}],
             audit)

\* AuditLogService.detectAnomalies(): failed documents of the trailing 24
\* hours grouped by user and action, groups of more than 5.
auditDetectAnomalies(db) ==
  IF ~db THEN Threw(audit)
  ELSE LET failed == SelectSeq(audit,
                       LAMBDA d : d.timestamp >= now - DayMs /\ ~d.success)
           count(u, a) == Len(SelectSeq(failed,
                                LAMBDA d : d.userId = u /\ d.action = a))
       IN  Returned(
             [potentialSecurityThreats |->
                {g \in {[userId |-> failed[i].userId, action |-> failed[i].action,
                         failureCount |-> count(failed[i].userId, failed[i].action)]
                          : i \in 1..Len(failed)} :
                   g.failureCount > FailureCountLimit}],
             audit)

\* ------------------------------------------------------------------------
\* FraudDetectionService: the detectors
\* ------------------------------------------------------------------------
ContextDeviceLimit == 2
ContextLocationLimit == 2
IpFailedLimit == 10
IpUsersLimit == 3
ActiveDays == 30
LoginDeviationLimit == 3
EventDeviationLimit == 2

\* detectSuspiciousUserActivity(userId).  A null user makes
\* calculateRiskScore throw.  The Sets of the contextual checks are built
\* without filter(Boolean): a missing value is one of the values counted.
detectSuspiciousUserActivity(userId, db, up) ==
  LET user == findUser(userId)
      suspiciousActivities ==
        getLogs(Filters(userId, now - DayMs, FALSE), db)
  IN  IF suspiciousActivities.outcome = "threw" \/ ~user.found THEN Threw(audit)
      ELSE LET docs == suspiciousActivities.res.docs
               riskScore == calculateRiskScore(user, docs, now)
               riskLevel == determineRiskLevel(riskScore)
               contextualRisks ==
                 [multipleDevices |->
                    Cardinality({docs[i].details.userAgent : i \in 1..Len(docs)})
                      > ContextDeviceLimit,
                  geographicalInconsistency |->
                    Cardinality({docs[i].details.location : i \in 1..Len(docs)})
                      > ContextLocationLimit]
               w == log(audit,
                        LogOptions(userId, "ADVANCED_RISK_ASSESSMENT", TRUE,
                                   None, None, None), up, now)
           IN  IF w.raised THEN Threw(w.store)
               ELSE Returned([userId |-> userId, riskScore |-> riskScore,
                              riskLevel |-> riskLevel,
                              suspiciousActivities |-> docs,
                              contextualRisks |-> contextualRisks], w.store)

\* The groups the $group stage handed to getLogs would give, had it run.
ipGroups(docs) ==
  {[ip |-> ip,
    failedAttempts |-> Len(SelectSeq(docs, LAMBDA d : d.ipAddress = ip)),
    uniqueUsers |-> {docs[i].userId : i \in {j \in 1..Len(docs) : docs[j].ipAddress = ip}}]
     : ip \in {docs[i].ipAddress : i \in 1..Len(docs)}}

\* detectIPBasedFraud().  The $group stage is passed as the options of
\* getLogs, which never reads it: ipFraudDetection is a page object, and
\* ipFraudDetection.filter is not a function.  The TypeError is caught and
\* re-thrown before anything is logged.
detectIPBasedFraud(db, up) ==
  LET ipFraudDetection ==
        getLogs(Filters(0, now - DayMs, TRUE), db)
  IN  IF ipFraudDetection.outcome = "threw" THEN Threw(audit)
      ELSE IF ipFraudDetection.res.kind # "array" THEN Threw(audit)
      ELSE LET suspiciousIPs ==
                 {g \in ipGroups(ipFraudDetection.res.docs) :
                    \/ g.failedAttempts > IpFailedLimit
                    \/ Cardinality(g.uniqueUsers) > IpUsersLimit}
               w == log(audit,
                        LogOptions(0, "IP_FRAUD_DETECTION", TRUE, None, None, None),
                        up, now)
           IN  IF w.raised THEN Threw(w.store)
               ELSE Returned([suspiciousIPs |-> suspiciousIPs], w.store)

\* Users whose lastLogin is within the trailing 30 days.
activeUsers ==
  {id \in DOMAIN users :
     /\ users[id].lastLogin.set
     /\ users[id].lastLogin.day + ActiveDays >= (now + DayMs - 1) \div DayMs}

\* $lookup from events where participants holds the user, then $size
recentEventCount(userId) ==
  Cardinality({e \in DOMAIN events : InSeq(userId, events[e].participants)})

\* detectAnomalies().  userBaselines has one group per active user; both
\* deviations are taken against element 0 of that list, `baseline` (0 when
\* the list is empty).  A deviation with a missing operand is null and
\* passes no $gt.
detectAnomalies(baseline, db, up) ==
  IF ~db THEN Threw(audit)
  ELSE LET loginDeviates(id) ==
             /\ baseline # 0
             /\ users[id].loginCount.set /\ users[baseline].loginCount.set
             /\ Abs(users[id].loginCount.n - users[baseline].loginCount.n)
                  > LoginDeviationLimit
           eventDeviates(id) ==
             /\ baseline # 0
             /\ Abs(recentEventCount(id) - users[baseline].registeredEvents)
                  > EventDeviationLimit
           anomalies == {id \in activeUsers : loginDeviates(id) \/ eventDeviates(id)}
           w == log(audit,
                    LogOptions(0, "ANOMALY_DETECTION", TRUE, None, None, None),
                    up, now)
       IN  IF w.raised THEN Threw(w.store)
           ELSE Returned([anomalies |-> anomalies], w.store)

\* runComprehensiveFraudCheck(userId): Promise.all of the three detectors;
\* it rejects when one of them does.
runComprehensiveFraudCheck(userId, baseline, db, up) ==
  LET userActivityCheck == detectSuspiciousUserActivity(userId, db, up)
      ipFraudCheck == detectIPBasedFraud(db, up)
      anomalyDetection == detectAnomalies(baseline, db, up)
  IN  IF \/ userActivityCheck.outcome = "threw"
         \/ ipFraudCheck.outcome = "threw"
         \/ anomalyDetection.outcome = "threw"
        THEN Threw(audit)
        ELSE LET overallRiskAssessment ==
                   [userId |-> userId,
                    userActivityRisk |-> userActivityCheck.res.riskLevel,
                    ipFraudRisk |->
                      IF ipFraudCheck.res.suspiciousIPs # {} THEN "HIGH" ELSE "LOW",
                    anomalyRisk |->
                      IF anomalyDetection.res.anomalies # {} THEN "MEDIUM" ELSE "LOW"]
                 w == log(audit,
                          LogOptions(userId, "COMPREHENSIVE_FRAUD_CHECK", TRUE,
                                     None, None, None), up, now)
             IN  IF w.raised THEN Threw(w.store)
                 ELSE Returned(overallRiskAssessment, w.store)

\* ------------------------------------------------------------------------
\* EventService.registerForEvent, called one request at a time
\* ------------------------------------------------------------------------
\* Mutant: the check for an earlier registration is left out.
registerForEvent_allowsDuplicates(eventId, userId) ==
  LET event == findEvent(eventId)
  IN  IF ~event.found THEN "Event not found"
      ELSE IF event.status # "published"
        THEN "Event is not open for registration"
      ELSE IF event.capacity # 0 /\ Len(event.participants) >= event.capacity
        THEN "Event is full"
      ELSE "ok"

\* EventService.registerForEvent(eventId, userId): "ok" when the user is
\* pushed and the event saved, the message of the error thrown otherwise.
\* participants is a Mongoose array: includes casts its argument, so a
\* string and an ObjectId of the same user are found alike.
registerForEvent(eventId, userId) ==
  LET event == findEvent(eventId)
  IN  IF ~event.found THEN "Event not found"
      ELSE IF event.status # "published"
        THEN "Event is not open for registration"
      ELSE IF event.capacity # 0 /\ Len(event.participants) >= event.capacity
        THEN "Event is full"
      ELSE IF InSeq(userId, event.participants)
        THEN "Already registered for this event"
      ELSE "ok"

\* exports.registerForEvent of the event controller (POST
\* /:eventId/register, behind authMiddleware.verifyToken): "ok" for the 200
\* response, the message of the 404 or 400 response otherwise.  The status
\* of the event is not looked at.  No stored event has a
\* registrationDeadline.
controllerRegisterForEvent(eventId, userId) ==
  LET event == findEvent(eventId)
  IN  IF ~event.found THEN "Event not found"
      ELSE IF event.capacity # 0 /\ Len(event.participants) >= event.capacity
        THEN "Event is full"
      ELSE IF InSeq(userId, event.participants)
        THEN "Already registered for this event"
      ELSE "ok"

\* The values of EventSchema.status.
EventStatuses == {"draft", "published", "cancelled", "completed"}
MinCapacity == 1
MaxCapacity == 10000

\* event.validate(): the required paths are there, capacity (when set) is
\* within its range, status is one of the enum.
eventValid(event) ==
  /\ event.organizer # 0
  /\ event.capacity # 0 =>
       (MinCapacity <= event.capacity /\ event.capacity <= MaxCapacity)
  /\ event.status \in EventStatuses

\* The data handed to createEvent: whether the required fields other than
\* the organizer are given, and the capacity (0: none given).
EventData(complete, capacity) == [complete |-> complete, capacity |-> capacity]

\* The document createEvent builds: the data, the organizer, status 'draft'.
newEvent(eventData, organizerId) ==
  [found |-> TRUE, createdAt |-> now, participants |-> <<>>,
   capacity |-> eventData.capacity, status |-> "draft",
   organizer |-> organizerId]

\* EventService.createEvent(eventData, organizerId): "ok" when the document
\* is saved, the message of the error thrown otherwise.
createEvent(eventData, organizerId) ==
  IF eventData.complete /\ eventValid(newEvent(eventData, organizerId))
    THEN "ok" ELSE "Event validation failed"

\* event.organizer.toString() !== userId: an ObjectId argument is never
\* equal to the string, whoever it names.
isOrganizer(event, userId, asString) == asString /\ event.organizer = userId

\* The data handed to updateEvent: one key, status or capacity, and its
\* value.
UpdateStatus(status) == [key |-> "status", status |-> status, capacity |-> 0]
UpdateCapacity(capacity) == [key |-> "capacity", status |-> None, capacity |-> capacity]

\* Object.keys(updateData).forEach(key => event[key] = updateData[key])
merged(event, updateData) ==
  IF updateData.key = "status"
    THEN [event EXCEPT !.status = updateData.status]
    ELSE [event EXCEPT !.capacity = updateData.capacity]

\* Mutant: anyone may update.
updateEvent_noOwnerCheck(eventId, updateData, userId, asString) ==
  LET event == findEvent(eventId)
  IN  IF ~event.found THEN "Event not found"
      ELSE IF ~eventValid(merged(event, updateData)) THEN "Event validation failed"
      ELSE "ok"

\* EventService.updateEvent(eventId, updateData, userId): "ok" when the
\* merged document is saved, the message of the error thrown otherwise.
updateEvent(eventId, updateData, userId, asString) ==
  LET event == findEvent(eventId)
  IN  IF ~event.found THEN "Event not found"
      ELSE IF ~isOrganizer(event, userId, asString)
        THEN "Unauthorized to update this event"
      ELSE IF ~eventValid(merged(event, updateData)) THEN "Event validation failed"
      ELSE "ok"

\* EventService.cancelEvent(eventId, userId): "ok" when the event is saved
\* as cancelled, the message of the error thrown otherwise.
cancelEvent(eventId, userId, asString) ==
  LET event == findEvent(eventId)
  IN  IF ~event.found THEN "Event not found"
      ELSE IF ~isOrganizer(event, userId, asString)
        THEN "Unauthorized to cancel this event"
      ELSE "ok"

\* ------------------------------------------------------------------------
\* The population the services run on
\* ------------------------------------------------------------------------
Today == T0 \div DayMs
CrowdIds == {10 + k : k \in 1..MaxCrowd}
GuardUsers == {0} \cup CallerIds       \* 0: an id no user has
GuardEvents == {0, 1}                  \* 0: an id no event has

\* A user document.  UserSchema declares lastLogin and registeredEvents but
\* neither loginCount nor contactInfo.ipAddress: documents written through
\* the model carry no loginCount.
UserDoc(createdDay, registered, ip, lastLoginSet) ==
  [found |-> TRUE, createdDay |-> createdDay, registeredEvents |-> registered,
   ipAddress |-> ip,
   lastLogin |-> [set |-> lastLoginSet, day |-> Today],
   loginCount |-> [set |-> FALSE, n |-> 0]]

EventDoc(createdAt, participants, capacity) ==
  [found |-> TRUE, createdAt |-> createdAt, participants |-> participants,
   capacity |-> capacity, status |-> "published", organizer |-> 2]

\* The last completed call: its arguments, whether its reads (dbUp) and its
\* audit write (auditUp) could succeed, what it gave, and what the same call
\* gives when the audit write has the other fate (twin).
NoCall ==
  [op |-> "none", userId |-> 0, eventId |-> 0, dbUp |-> TRUE, auditUp |-> TRUE,
   outcome |-> "none", res |-> <<>>,
   twin |-> [outcome |-> "none", res |-> <<>>]]

\* Caller 1 is a 10- or 100-day-old account with no registered events,
\* caller 2 an old account with 3; the crowd shares one address.  Event 1
\* holds `crowd` participants and may have a capacity; all events were
\* created two days or one hour ago; caller 1 has joined the events
\* 2..joined+1 when they were created.
World(young, crowd, capacity, old, joined) ==
  LET created == IF old THEN T0 - 2 * DayMs ELSE T0 - HourMs
  IN  /\ users = [id \in CallerIds \cup CrowdIds |->
                    IF id = 1
                      THEN UserDoc(Today - (IF young THEN 10 ELSE 100), 0, None, TRUE)
                    ELSE IF id = 2 THEN UserDoc(Today - 100, 3, None, TRUE)
                    ELSE UserDoc(Today - 100, 0, "ip9", FALSE)]
      /\ events = [e \in 1..MaxEvents |->
                     IF e = 1
                       THEN EventDoc(created, [k \in 1..crowd |-> 10 + k], capacity)
                     ELSE IF e <= joined + 1 THEN EventDoc(created, <<1>>, 0)
                     ELSE EventDoc(created, <<>>, 0)]
      /\ registrations = {[userId |-> 10 + k, eventId |-> 1, at |-> created]
                            : k \in 1..crowd}
                         \cup {[userId |-> 1, eventId |-> e, at |-> created]
                                 : e \in 2..(joined + 1)}
      /\ audit = <<>>
      /\ call = NoCall
      /\ cleared = {}

ServiceIdle ==
  /\ users = <<>> /\ events = <<>> /\ registrations = {}
  /\ audit = <<>> /\ call = NoCall /\ cleared = {}

\* A service call has completed with r.
Completed(op, userId, eventId, db, up, r, other) ==
  /\ call' = [op |-> op, userId |-> userId, eventId |-> eventId,
              dbUp |-> db, auditUp |-> up,
              outcome |-> r.outcome, res |-> r.res,
              twin |-> [outcome |-> other.outcome, res |-> other.res]]
  /\ audit' = r.store
  /\ UNCHANGED <<now, ticks, users, events, registrations, scoreVars, tokenVars, processVars>>

Done(op, userId, eventId, db, up, r, other) ==
  Completed(op, userId, eventId, db, up, r, other) /\ UNCHANGED cleared

\* Caller 1 registers for event 1 or for the next event it is not yet in.
RegisterForEvent ==
  \E eventId \in DOMAIN events :
    /\ \/ eventId = 1
       \/ /\ eventId > 1 /\ ~InSeq(1, events[eventId].participants)
          /\ \A e \in 2..(eventId - 1) : InSeq(1, events[e].participants)
    /\ LET answer == registerForEvent(eventId, 1)
       IN  IF answer = "ok"
             THEN /\ events' = [events EXCEPT ![eventId].participants = Append(@, 1)]
                  /\ registrations' = registrations \cup
                       {[userId |-> 1, eventId |-> eventId, at |-> now]}
                  /\ call' = [op |-> "registerForEvent", userId |-> 1,
                              eventId |-> eventId, dbUp |-> TRUE, auditUp |-> TRUE,
                              outcome |-> "returned", res |-> <<>>,
                              twin |-> [outcome |-> "returned", res |-> <<>>]]
             ELSE /\ UNCHANGED <<events, registrations>>
                  /\ call' = [op |-> "registerForEvent", userId |-> 1,
                              eventId |-> eventId, dbUp |-> TRUE, auditUp |-> TRUE,
                              outcome |-> "threw", res |-> <<>>,
                              twin |-> [outcome |-> "threw", res |-> <<>>]]
    /\ UNCHANGED <<now, ticks, users, audit, cleared, scoreVars, tokenVars, processVars>>

CheckRegistrationRateLimit ==
  \E userId \in GuardUsers, eventId \in GuardEvents, db \in BOOLEAN, up \in BOOLEAN :
    Done("checkRegistrationRateLimit", userId, eventId, db, up,
         checkRegistrationRateLimit(userId, eventId, db, up),
         checkRegistrationRateLimit(userId, eventId, db, ~up))

AssessRegistrationRisk ==
  \E userId \in GuardUsers, eventId \in GuardEvents, db \in BOOLEAN, up \in BOOLEAN :
    Done("assessRegistrationRisk", userId, eventId, db, up,
         assessRegistrationRisk(userId, eventId, db, up),
         assessRegistrationRisk(userId, eventId, db, ~up))

DetectSuspiciousRegistrations ==
  \E eventId \in GuardEvents, db \in BOOLEAN :
    Done("detectSuspiciousRegistrations", 0, eventId, db, TRUE,
         detectSuspiciousRegistrations(eventId, db),
         detectSuspiciousRegistrations(eventId, db))

PerformEventSecurityCheck ==
  \E userId \in GuardUsers, eventId \in GuardEvents, db \in BOOLEAN, up \in BOOLEAN :
    Done("performEventSecurityCheck", userId, eventId, db, up,
         performEventSecurityCheck(userId, eventId, db, up),
         performEventSecurityCheck(userId, eventId, db, ~up))

\* ------------------------------------------------------------------------
\* The event service and the event controller, one request at a time
\* ------------------------------------------------------------------------
EventCallers == {0} \cup CallerIds     \* 0: no id given, or an id no user has

\* An event request has completed: it returned (answer "ok") or failed with
\* the message `answer`.
Answered(op, userId, eventId, answer) ==
  /\ call' = [op |-> op, userId |-> userId, eventId |-> eventId,
              dbUp |-> TRUE, auditUp |-> TRUE,
              outcome |-> IF answer = "ok" THEN "returned" ELSE "threw",
              res |-> answer,
              twin |-> [outcome |-> IF answer = "ok" THEN "returned" ELSE "threw",
                        res |-> answer]]
  /\ UNCHANGED <<now, ticks, users, audit, cleared, scoreVars, tokenVars, processVars>>

CreateEvent ==
  /\ Len(events) < MaxCreated
  /\ \E complete \in BOOLEAN, capacity \in {0, MinCapacity}, organizerId \in EventCallers :
       LET answer == createEvent(EventData(complete, capacity), organizerId)
       IN  /\ events' = IF answer = "ok"
                          THEN Append(events,
                                 newEvent(EventData(complete, capacity), organizerId))
                          ELSE events
           /\ Answered("createEvent", organizerId,
                       IF answer = "ok" THEN Len(events) + 1 ELSE 0, answer)
           /\ UNCHANGED registrations

UpdateEvent ==
  \E eventId \in {0} \cup DOMAIN events, userId \in CallerIds, asString \in BOOLEAN,
     updateData \in {UpdateStatus("published"), UpdateStatus("archived"),
                     UpdateCapacity(MinCapacity)} :
    LET answer == updateEvent(eventId, updateData, userId, asString)
    IN  /\ events' = IF answer = "ok"
                       THEN [events EXCEPT ![eventId] = merged(@, updateData)]
                       ELSE events
        /\ Answered("updateEvent", userId, eventId, answer)
        /\ UNCHANGED registrations

CancelEvent ==
  \E eventId \in {0} \cup DOMAIN events, userId \in CallerIds, asString \in BOOLEAN :
    LET answer == cancelEvent(eventId, userId, asString)
    IN  /\ events' = IF answer = "ok"
                       THEN [events EXCEPT ![eventId].status = "cancelled"]
                       ELSE events
        /\ Answered("cancelEvent", userId, eventId, answer)
        /\ UNCHANGED registrations

\* The user is pushed to the participants and the event is saved.
pushed(eventId, userId, answer) ==
  /\ events' = IF answer = "ok"
                 THEN [events EXCEPT ![eventId].participants = Append(@, userId)]
                 ELSE events
  /\ registrations' = IF answer = "ok"
                        THEN registrations \cup
                               {[userId |-> userId, eventId |-> eventId, at |-> now]}
                        ELSE registrations

ServiceRegister ==
  \E eventId \in {0} \cup DOMAIN events, userId \in CallerIds :
    LET answer == registerForEvent(eventId, userId)
    IN  /\ pushed(eventId, userId, answer)
        /\ Answered("registerForEvent", userId, eventId, answer)

ControllerRegister ==
  \E eventId \in {0} \cup DOMAIN events, userId \in CallerIds :
    LET answer == controllerRegisterForEvent(eventId, userId)
    IN  /\ pushed(eventId, userId, answer)
        /\ Answered("controllerRegisterForEvent", userId, eventId, answer)

\* performEventSecurityCheck, with the allowed requests remembered.
SecurityCheck ==
  \E userId \in CallerIds, eventId \in DOMAIN events, db \in BOOLEAN :
    LET r == performEventSecurityCheck(userId, eventId, db, TRUE)
    IN  /\ Completed("performEventSecurityCheck", userId, eventId, db, TRUE, r, r)
        /\ cleared' = IF r.outcome = "returned" /\ r.res.allowed
                        THEN cleared \cup {<<userId, eventId>>}
                        ELSE cleared

\* The users of the crowd register for event 1 one after the other, through
\* the event service.
CrowdRegister ==
  \E userId \in CrowdIds :
    /\ ~InSeq(userId, findEvent(1).participants)
    /\ \A other \in CrowdIds :
         other < userId => InSeq(other, findEvent(1).participants)
    /\ LET answer == registerForEvent(1, userId)
       IN  /\ pushed(1, userId, answer)
           /\ Answered("registerForEvent", userId, 1, answer)

\* The log calls the rest of the application makes: a failed and a
\* successful login, a call that passes no user, and a call whose action is
\* not one of the enum.
ClientLogs ==
  {LogOptions(1, "LOGIN_ATTEMPT", FALSE, "L1", "D1", "ip1"),
   LogOptions(2, "LOGIN_ATTEMPT", TRUE, None, None, "ip1"),
   LogOptions(0, "PERMISSION_DENIED", FALSE, None, None, "ip2"),
   LogOptions(1, "API_REQUEST_START", TRUE, None, None, "ip1")}

Log ==
  /\ Len(audit) < MaxLog
  /\ \E options \in ClientLogs, up \in BOOLEAN :
       LET w == log(audit, options, up, now)
           r == IF w.raised THEN Threw(w.store) ELSE Returned(<<>>, w.store)
       IN  Done("log", options.userId, 0, TRUE, up, r, r)

\* The log calls that record what user 1 does: logins from three places
\* and devices, and a request that carries neither.
ActivityLogs ==
  {LogOptions(1, "LOGIN_ATTEMPT", FALSE, "L1", "D1", "ip1"),
   LogOptions(1, "LOGIN_ATTEMPT", TRUE, "L2", "D2", "ip1"),
   LogOptions(1, "LOGIN_ATTEMPT", TRUE, "L3", "D3", "ip2"),
   LogOptions(1, "API_ACCESS", TRUE, None, None, "ip1")}

LogActivity ==
  /\ Len(audit) < MaxHistory
  /\ \E options \in ActivityLogs :
       LET w == log(audit, options, TRUE, now)
           r == IF w.raised THEN Threw(w.store) ELSE Returned(<<>>, w.store)
       IN  Done("log", options.userId, 0, TRUE, TRUE, r, r)

\* getLogs with no filter, with a user filter, and with the failed-only
\* filter.
GetLogs ==
  \E userId \in {0} \cup CallerIds, failedOnly \in BOOLEAN, db \in BOOLEAN :
    LET r == getLogs(Filters(userId, 0, failedOnly), db)
    IN  Done("getLogs", userId, 0, db, TRUE, r, r)

GenerateSecurityReport ==
  \E db \in BOOLEAN :
    Done("generateSecurityReport", 0, 0, db, TRUE,
         generateSecurityReport(db), generateSecurityReport(db))

AuditDetectAnomalies ==
  \E db \in BOOLEAN :
    Done("auditDetectAnomalies", 0, 0, db, TRUE,
         auditDetectAnomalies(db), auditDetectAnomalies(db))

DetectSuspiciousUserActivity ==
  \E userId \in GuardUsers, db \in BOOLEAN, up \in BOOLEAN :
    Done("detectSuspiciousUserActivity", userId, 0, db, up,
         detectSuspiciousUserActivity(userId, db, up),
         detectSuspiciousUserActivity(userId, db, ~up))

DetectIPBasedFraud ==
  \E db \in BOOLEAN, up \in BOOLEAN :
    Done("detectIPBasedFraud", 0, 0, db, up,
         detectIPBasedFraud(db, up), detectIPBasedFraud(db, ~up))

\* detectSuspiciousUserActivity, with the call before it remembered.
DetectRecorded ==
  \E userId \in GuardUsers, db \in BOOLEAN, up \in BOOLEAN :
    LET r == detectSuspiciousUserActivity(userId, db, up)
        other == detectSuspiciousUserActivity(userId, db, ~up)
    IN  /\ call' = [op |-> "detectSuspiciousUserActivity", userId |-> userId,
                    eventId |-> 0, dbUp |-> db, auditUp |-> up,
                    outcome |-> r.outcome, res |-> r.res,
                    twin |-> [outcome |-> other.outcome, res |-> other.res]]
        /\ audit' = r.store
        /\ earlier' = call
        /\ UNCHANGED <<now, ticks, users, events, registrations, cleared,
                       scoreVars, tokenVars, flight, requests, crud>>

\* Element 0 of userBaselines: the $group stage has no order, any active
\* user's group can come first.
Baselines == IF activeUsers = {} THEN {0} ELSE activeUsers

DetectAnomalies ==
  \E baseline \in Baselines, db \in BOOLEAN, up \in BOOLEAN :
    Done("detectAnomalies", baseline, 0, db, up,
         detectAnomalies(baseline, db, up), detectAnomalies(baseline, db, ~up))

RunComprehensiveFraudCheck ==
  \E userId \in GuardUsers, baseline \in Baselines, db \in BOOLEAN, up \in BOOLEAN :
    Done("runComprehensiveFraudCheck", userId, 0, db, up,
         runComprehensiveFraudCheck(userId, baseline, db, up),
         runComprehensiveFraudCheck(userId, baseline, db, ~up))

\* ------------------------------------------------------------------------
\* runComprehensiveFraudCheck and performEventSecurityCheck, step by step
\* ------------------------------------------------------------------------
\* Promise.all([a(), b(), c()]) calls the three sub-checks one after the
\* other; each runs up to its first await, so all three are under way when
\* Promise.all is awaited.  From then on every sub-check takes its steps on
\* its own: its reads complete (or fail, and its catch block re-throws),
\* then its log call completes.  The composite rejects as soon as one
\* sub-check has rejected and resolves when all three have resolved.
CompositeOps == {"runComprehensiveFraudCheck", "performEventSecurityCheck"}

subChecks(op) ==
  IF op = "runComprehensiveFraudCheck"
    THEN <<"detectSuspiciousUserActivity", "detectIPBasedFraud", "detectAnomalies">>
    ELSE <<"checkRegistrationRateLimit", "assessRegistrationRisk",
           "detectSuspiciousRegistrations">>

NoResult == [outcome |-> "none"]

\* A sub-check: pc is where it stands, res what its reads gave, logUp
\* whether the audit store was available at its log call, wrote whether
\* that call left a document in the audit log, late whether it finished
\* after the composite had rejected.
SubCheck(name, pc) ==
  [name |-> name, pc |-> pc, res |-> NoResult, logUp |-> FALSE,
   wrote |-> FALSE, late |-> FALSE]

FlightIdle ==
  flight = [op |-> "none", userId |-> 0, eventId |-> 0, state |-> "idle",
            started |-> 0,
            tasks |-> [k \in 1..3 |-> SubCheck("none", "idle")]]

Finished(task) == task.pc \in {"idle", "done", "failed"}

\* What the reads of a sub-check give; the log call is a step of its own.
subCheck(name, userId, eventId, baseline, db) ==
  CASE name = "detectSuspiciousUserActivity" ->
         detectSuspiciousUserActivity(userId, db, TRUE)
    [] name = "detectIPBasedFraud" -> detectIPBasedFraud(db, TRUE)
    [] name = "detectAnomalies" -> detectAnomalies(baseline, db, TRUE)
    [] name = "checkRegistrationRateLimit" ->
         checkRegistrationRateLimit(userId, eventId, db, TRUE)
    [] name = "assessRegistrationRisk" ->
         assessRegistrationRisk(userId, eventId, db, TRUE)
    [] name = "detectSuspiciousRegistrations" ->
         detectSuspiciousRegistrations(eventId, db)

\* Whether the sub-check calls AuditLogService.log before it returns res.
logsFindings(name, res) ==
  CASE name = "detectSuspiciousRegistrations" -> FALSE
    [] name = "checkRegistrationRateLimit" -> ~res.allowed
    [] OTHER -> TRUE

\* The options of that log call.
findingsLog(name, userId) ==
  CASE name = "detectSuspiciousUserActivity" ->
         LogOptions(userId, "ADVANCED_RISK_ASSESSMENT", TRUE, None, None, None)
    [] name = "detectIPBasedFraud" ->
         LogOptions(0, "IP_FRAUD_DETECTION", TRUE, None, None, None)
    [] name = "detectAnomalies" ->
         LogOptions(0, "ANOMALY_DETECTION", TRUE, None, None, None)
    [] name = "checkRegistrationRateLimit" ->
         LogOptions(userId, "REGISTRATION_RATE_LIMIT_EXCEEDED", FALSE, None, None, None)
    [] name = "assessRegistrationRisk" ->
         LogOptions(userId, "REGISTRATION_RISK_ASSESSMENT", TRUE, None, None, None)

\* The object the composite returns, built from what the sub-checks gave.
compositeReport(op, userId, tasks) ==
  IF op = "runComprehensiveFraudCheck"
    THEN [userId |-> userId,
          userActivityRisk |-> tasks[1].res.riskLevel,
          ipFraudRisk |->
            IF tasks[2].res.suspiciousIPs # {} THEN "HIGH" ELSE "LOW",
          anomalyRisk |->
            IF tasks[3].res.anomalies # {} THEN "MEDIUM" ELSE "LOW"]
    ELSE [allowed |-> /\ tasks[1].res.allowed
                      /\ ~tasks[3].res.potentialFraud,
          rateLimit |-> tasks[1].res,
          riskAssessment |-> tasks[2].res,
          suspiciousRegistrations |-> tasks[3].res]

FlightUnchanged ==
  UNCHANGED <<now, ticks, users, events, registrations, cleared, scoreVars,
              tokenVars, requests, crud, earlier>>

\* The composite is called: its three sub-checks are under way.
StartComposite ==
  /\ flight.started < MaxFlights
  /\ flight.state # "pending"
  /\ \A k \in 1..3 : Finished(flight.tasks[k])
  /\ \E op \in CompositeOps, userId \in GuardUsers, eventId \in GuardEvents :
       flight' = [op |-> op, userId |-> userId, eventId |-> eventId,
                  state |-> "pending", started |-> flight.started + 1,
                  tasks |-> [k \in 1..3 |-> SubCheck(subChecks(op)[k], "reading")]]
  /\ UNCHANGED <<audit, call>>
  /\ FlightUnchanged

\* The reads of sub-check k complete or fail.
SubCheckReads(k) ==
  /\ flight.tasks[k].pc = "reading"
  /\ \E db \in BOOLEAN, baseline \in Baselines :
       LET task == flight.tasks[k]
           r == subCheck(task.name, flight.userId, flight.eventId, baseline, db)
           pc == IF r.outcome = "threw" THEN "failed"
                 ELSE IF logsFindings(task.name, r.res) THEN "logging"
                 ELSE "done"
       IN  flight' = [flight EXCEPT
                        !.tasks[k].pc = pc,
                        !.tasks[k].res = IF r.outcome = "threw" THEN NoResult ELSE r.res,
                        !.tasks[k].late = pc # "logging" /\ flight.state = "rejected"]
  /\ UNCHANGED <<audit, call>>
  /\ FlightUnchanged

\* The log call of sub-check k completes and the sub-check returns.
SubCheckLogs(k) ==
  /\ flight.tasks[k].pc = "logging"
  /\ \E up \in BOOLEAN :
       LET w == log(audit, findingsLog(flight.tasks[k].name, flight.userId), up, now)
       IN  /\ audit' = w.store
           /\ flight' = [flight EXCEPT
                           !.tasks[k].pc = IF w.raised THEN "failed" ELSE "done",
                           !.tasks[k].logUp = up,
                           !.tasks[k].wrote = Len(w.store) > Len(audit),
                           !.tasks[k].late = flight.state = "rejected"]
  /\ UNCHANGED call
  /\ FlightUnchanged

\* Promise.all rejects, the catch block re-throws: the caller gets the
\* error and nothing else.  The event loop runs this before any other
\* sub-check goes on; the model also lets them go on first.
RejectComposite ==
  /\ flight.state = "pending"
  /\ \E k \in 1..3 : flight.tasks[k].pc = "failed"
  /\ flight' = [flight EXCEPT !.state = "rejected"]
  /\ call' = [op |-> flight.op, userId |-> flight.userId, eventId |-> flight.eventId,
              dbUp |-> FALSE, auditUp |-> TRUE, outcome |-> "threw", res |-> <<>>,
              twin |-> [outcome |-> "threw", res |-> <<>>]]
  /\ UNCHANGED audit
  /\ FlightUnchanged

\* All three have resolved: the report is built, runComprehensiveFraudCheck
\* logs it, and the composite returns it.
ResolveComposite ==
  /\ flight.state = "pending"
  /\ \A k \in 1..3 : flight.tasks[k].pc = "done"
  /\ \E up \in BOOLEAN :
       LET report == compositeReport(flight.op, flight.userId, flight.tasks)
           w == IF flight.op = "runComprehensiveFraudCheck"
                  THEN log(audit,
                           LogOptions(flight.userId, "COMPREHENSIVE_FRAUD_CHECK",
                                      TRUE, None, None, None), up, now)
                  ELSE [store |-> audit, raised |-> FALSE]
       IN  /\ audit' = w.store
           /\ flight' = [flight EXCEPT !.state = "resolved"]
           /\ call' = [op |-> flight.op, userId |-> flight.userId,
                       eventId |-> flight.eventId, dbUp |-> TRUE, auditUp |-> up,
                       outcome |-> "returned", res |-> report,
                       twin |-> [outcome |-> "returned", res |-> report]]
  /\ FlightUnchanged

\* ------------------------------------------------------------------------
\* Registration requests that run at the same time
\* ------------------------------------------------------------------------
\* Both registration paths await twice: Event.findById, then event.save().
\* Between the two a request holds the document as it has read it, and
\* other requests run.
RequestIds == 1..MaxRequests
RegisterPaths == {"registerForEvent", "controllerRegisterForEvent"}

NoRequest ==
  [pc |-> "idle", path |-> "none", userId |-> 0, eventId |-> 0, event |-> NoEvent]

RequestsIdle == requests = [r \in RequestIds |-> NoRequest]

\* The checks of a registration path on the document the request holds:
\* "ok", or the message of the error.
admission(path, event, userId) ==
  IF ~event.found THEN "Event not found"
  ELSE IF path = "registerForEvent" /\ event.status # "published"
    THEN "Event is not open for registration"
  ELSE IF event.capacity # 0 /\ Len(event.participants) >= event.capacity
    THEN "Event is full"
  ELSE IF InSeq(userId, event.participants)
    THEN "Already registered for this event"
  ELSE "ok"

RaceUnchanged ==
  UNCHANGED <<now, ticks, users, audit, cleared, scoreVars, tokenVars, flight, crud,
              earlier>>

\* const event = await Event.findById(eventId)
LoadEvent(r) ==
  /\ requests[r].pc = "idle"
  /\ \E path \in RegisterPaths, userId \in CallerIds, eventId \in {0} \cup DOMAIN events :
       requests' = [requests EXCEPT ![r] =
                      [pc |-> "loaded", path |-> path, userId |-> userId,
                       eventId |-> eventId, event |-> findEvent(eventId)]]
  /\ UNCHANGED <<events, registrations, call>>
  /\ RaceUnchanged

\* The checks on the loaded document, then event.participants.push(userId)
\* and event.save().  Mongoose saves a push as a $push on the stored array,
\* keyed by _id alone: the user is appended to the participants as they are
\* stored at that moment, with no look at the capacity.
SaveRegistration(r) ==
  /\ requests[r].pc = "loaded"
  /\ LET req == requests[r]
         answer == admission(req.path, req.event, req.userId)
     IN  /\ pushed(req.eventId, req.userId, answer)
         /\ call' = [op |-> req.path, userId |-> req.userId, eventId |-> req.eventId,
                     dbUp |-> TRUE, auditUp |-> TRUE,
                     outcome |-> IF answer = "ok" THEN "returned" ELSE "threw",
                     res |-> answer,
                     twin |-> [outcome |-> IF answer = "ok" THEN "returned" ELSE "threw",
                               res |-> answer]]
         /\ requests' = [requests EXCEPT ![r].pc = "done"]
  /\ RaceUnchanged

\* ------------------------------------------------------------------------
\* The in-memory events of the /crud routes
\* ------------------------------------------------------------------------
Titles == {"a", "b"}

CrudEvent(id, title) == [id |-> id, title |-> title]

\* let events = [{id: 1, ...}, {id: 2, ...}]
SampleEvents == <<CrudEvent(1, "a"), CrudEvent(2, "b")>>

\* events.findIndex(e => e.id === id): the first index, 0 for -1.
findIndex(id) ==
  IF \E i \in 1..Len(crud) : crud[i].id = id
    THEN CHOOSE i \in 1..Len(crud) :
           crud[i].id = id /\ \A j \in 1..(i - 1) : crud[j].id # id
    ELSE 0

ProcessIdle == FlightIdle /\ RequestsIdle /\ crud = SampleEvents /\ earlier = NoCall

CrudAnswered(op, id, status, body) ==
  /\ call' = [op |-> op, userId |-> 0, eventId |-> id, dbUp |-> TRUE,
              auditUp |-> TRUE, outcome |-> "returned",
              res |-> [status |-> status, body |-> body],
              twin |-> [outcome |-> "returned",
                        res |-> [status |-> status, body |-> body]]]
  /\ UNCHANGED <<now, ticks, users, events, registrations, audit, cleared,
                 scoreVars, tokenVars, flight, requests, earlier>>

\* router.get('/crud/:id')
CrudGet ==
  \E id \in 1..(MaxStored + 1) :
    LET i == findIndex(id)
    IN  /\ UNCHANGED crud
        /\ IF i = 0 THEN CrudAnswered("GET /crud/:id", id, 404, CrudEvent(0, None))
           ELSE CrudAnswered("GET /crud/:id", id, 200, crud[i])

\* router.post('/crud'): id is events.length + 1.
CrudPost ==
  /\ Len(crud) < MaxStored
  /\ \E title \in Titles :
       LET created == CrudEvent(Len(crud) + 1, title)
       IN  /\ crud' = Append(crud, created)
           /\ CrudAnswered("POST /crud", created.id, 201, created)

\* router.put('/crud/:id'): title = req.body.title || event.title
CrudPut ==
  \E id \in 1..(MaxStored + 1), title \in Titles \cup {None} :
    LET i == findIndex(id)
    IN  IF i = 0
          THEN /\ UNCHANGED crud
               /\ CrudAnswered("PUT /crud/:id", id, 404, CrudEvent(0, None))
          ELSE /\ crud' = [crud EXCEPT
                             ![i].title = IF title = None THEN @ ELSE title]
               /\ CrudAnswered("PUT /crud/:id", id, 200, crud'[i])

\* router.delete('/crud/:id'): events.splice(eventIndex, 1)
CrudDelete ==
  \E id \in 1..(MaxStored + 1) :
    LET i == findIndex(id)
    IN  IF i = 0
          THEN /\ UNCHANGED crud
               /\ CrudAnswered("DELETE /crud/:id", id, 404, CrudEvent(0, None))
          ELSE /\ crud' = RemoveAt(crud, i)
               /\ CrudAnswered("DELETE /crud/:id", id, 200, CrudEvent(0, None))

\* ------------------------------------------------------------------------
\* Specifications
\* ------------------------------------------------------------------------
GuardNext ==
  \/ RegisterForEvent
  \/ CheckRegistrationRateLimit
  \/ AssessRegistrationRisk
  \/ DetectSuspiciousRegistrations
  \/ PerformEventSecurityCheck

InitGuard ==
  /\ now = T0 /\ ticks = 0 /\ TokenInit /\ ProcessIdle /\ ScoreInit /\ subject = NoUser
  /\ \E young \in BOOLEAN, old \in BOOLEAN,
        crowd \in 0..MaxCrowd, capacity \in {0, SameIpLimit} :
       /\ capacity # 0 => crowd <= capacity
       /\ World(young, crowd, capacity, old, 0)

SpecGuard == InitGuard /\ [][GuardNext]_vars

\* The audit log, the detectors and the guard over one store.
Next ==
  \/ Log
  \/ GetLogs
  \/ GenerateSecurityReport
  \/ AuditDetectAnomalies
  \/ DetectSuspiciousUserActivity
  \/ DetectIPBasedFraud
  \/ DetectAnomalies
  \/ RunComprehensiveFraudCheck
  \/ CheckRegistrationRateLimit
  \/ AssessRegistrationRisk
  \/ DetectSuspiciousRegistrations
  \/ PerformEventSecurityCheck
  \/ NextDay

Init ==
  /\ now = T0 /\ ticks = 0 /\ TokenInit /\ ProcessIdle /\ ScoreInit /\ subject = NoUser
  /\ World(TRUE, MaxCrowd, 0, FALSE, RegistrationLimit)

Spec == Init /\ [][Next]_vars

\* The event service and the event controller over one collection of
\* events that starts empty.
EventsNext ==
  \/ CreateEvent
  \/ UpdateEvent
  \/ CancelEvent
  \/ ServiceRegister
  \/ ControllerRegister

InitEvents ==
  /\ now = T0 /\ ticks = 0 /\ TokenInit /\ ProcessIdle /\ ScoreInit /\ subject = NoUser
  /\ users = [id \in CallerIds |-> UserDoc(Today - 100, 0, None, TRUE)]
  /\ events = <<>> /\ registrations = {} /\ audit = <<>>
  /\ call = NoCall /\ cleared = {}

SpecEvents == InitEvents /\ [][EventsNext]_vars

\* The same requests next to calls of the guard.
RequestsNext == EventsNext \/ SecurityCheck

SpecRequests == InitEvents /\ [][RequestsNext]_vars

\* The activity of one user is logged and assessed.
ActivityNext == LogActivity \/ DetectSuspiciousUserActivity

InitActivity ==
  /\ now = T0 /\ ticks = 0 /\ TokenInit /\ ProcessIdle /\ ScoreInit /\ subject = NoUser
  /\ users = [id \in CallerIds |-> UserDoc(Today - 100, 0, None, TRUE)]
  /\ events = <<>> /\ registrations = {} /\ audit = <<>>
  /\ call = NoCall /\ cleared = {}

SpecActivity == InitActivity /\ [][ActivityNext]_vars

\* An event fills up with the users of the crowd and is scanned for
\* suspicious registrations.  The first `shared` users of the crowd have
\* one recorded address, the others have none.
ScanNext == CrowdRegister \/ DetectSuspiciousRegistrations

InitScan ==
  /\ now = T0 /\ ticks = 0 /\ TokenInit /\ ProcessIdle /\ ScoreInit /\ subject = NoUser
  /\ \E shared \in 0..MaxCrowd :
       users = [id \in CallerIds \cup CrowdIds |->
                  IF id \in CallerIds THEN UserDoc(Today - 100, 0, None, TRUE)
                  ELSE IF id <= 10 + shared THEN UserDoc(Today - 100, 0, "ip9", TRUE)
                  ELSE UserDoc(Today - 100, 0, None, TRUE)]
  /\ events = <<EventDoc(T0 - HourMs, <<>>, 0)>>
  /\ registrations = {} /\ audit = <<>> /\ call = NoCall /\ cleared = {}

SpecScan == InitScan /\ [][ScanNext]_vars

\* The composite checks with their sub-checks interleaved, over the store
\* of Spec.
FlightNext ==
  \/ StartComposite
  \/ \E k \in 1..3 : SubCheckReads(k)
  \/ \E k \in 1..3 : SubCheckLogs(k)
  \/ RejectComposite
  \/ ResolveComposite

InitFlight ==
  /\ now = T0 /\ ticks = 0 /\ TokenInit /\ ProcessIdle /\ ScoreInit /\ subject = NoUser
  /\ World(TRUE, MaxCrowd, 0, FALSE, RegistrationLimit)

SpecFlight == InitFlight /\ [][FlightNext]_vars

\* One user has logged in every ten minutes; the oldest of these logins
\* failed, the others succeeded.  Another user has logged in once.
LoginHistory(n) ==
  <<Entry(2, "LOGIN_ATTEMPT", FALSE, "L2", "D2", T0 - HourMs, "ip2")>>
  \o [i \in 1..n |->
        Entry(1, "LOGIN_ATTEMPT", i # 1, "L1", "D1",
              T0 - (n - i + 1) * 10 * MinuteMs, "ip1")]

\* Histories that are empty, short, one page long, and longer than a page.
HistoryLengths == {0, 1, PageLimit} \cup {PageLimit + k : k \in 1..MaxOverflow}

\* The activity of a user with a long history is assessed, day after day.
WindowNext == LogActivity \/ DetectSuspiciousUserActivity \/ NextDay

InitWindow ==
  /\ now = T0 /\ ticks = 0 /\ TokenInit /\ ProcessIdle /\ ScoreInit /\ subject = NoUser
  /\ users = [id \in CallerIds |-> UserDoc(Today - 100, 0, None, TRUE)]
  /\ events = <<>> /\ registrations = {}
  /\ \E n \in HistoryLengths : audit = LoginHistory(n)
  /\ call = NoCall /\ cleared = {}

SpecWindow == InitWindow /\ [][WindowNext]_vars

\* Registration requests for one published event, interleaved.
RaceNext ==
  \/ \E r \in RequestIds : LoadEvent(r)
  \/ \E r \in RequestIds : SaveRegistration(r)

InitRace ==
  /\ now = T0 /\ ticks = 0 /\ TokenInit /\ ProcessIdle /\ ScoreInit /\ subject = NoUser
  /\ users = [id \in CallerIds |-> UserDoc(Today - 100, 0, None, TRUE)]
  /\ \E capacity \in {0, MinCapacity} :
       events = <<EventDoc(T0 - HourMs, <<>>, capacity)>>
  /\ registrations = {} /\ audit = <<>> /\ call = NoCall /\ cleared = {}

SpecRace == InitRace /\ [][RaceNext]_vars

\* The /crud routes over the in-memory events.
CrudNext == CrudGet \/ CrudPost \/ CrudPut \/ CrudDelete

InitCrud ==
  now = T0 /\ ticks = 0 /\ TokenInit /\ ProcessIdle /\ ScoreInit /\ subject = NoUser
  /\ ServiceIdle

SpecCrud == InitCrud /\ [][CrudNext]_vars

\* The activity of one user is logged and assessed again and again.
RepeatNext == LogActivity \/ DetectRecorded

SpecRepeat == InitActivity /\ [][RepeatNext]_vars

TokenNext == GenerateToken \/ ValidateToken \/ Tick

InitToken ==
  now = T0 /\ ticks = 0 /\ TokenInit /\ ProcessIdle /\ ScoreInit /\ subject = NoUser /\ ServiceIdle

SpecToken == InitToken /\ [][TokenNext]_vars

ScoreNext == AddActivity \/ Score

InitScore == now = T0 /\ ticks = 0 /\ ScoreInit /\ TokenInit /\ ProcessIdle /\ ServiceIdle

SpecScore == InitScore /\ [][ScoreNext]_vars

LevelsNext == AddLogin \/ ScoreSeries \/ NextSubject

InitLevels ==
  now = T0 /\ ticks = 0 /\ ScoreInit /\ TokenInit /\ ProcessIdle /\ ServiceIdle /\ subject.found

SpecLevels == InitLevels /\ [][LevelsNext]_vars


\* The issued token was presented with the pair it was issued for.
ValidatedOwnToken ==
  /\ validation # NoValidation /\ issued # NoToken
  /\ validation.token = issued.accessToken
  /\ validation.eventId = issued.eventId
  /\ validation.userId = issued.userId

\* C5: a token returned by generateEventAccessToken(eventId, userId) is
\* accepted by a later validateEventAccessToken(token, eventId, userId) made
\* before the token's expiresAt.
C5_IssuedTokenAccepted ==
  (ValidatedOwnToken /\ validation.at < issued.expiresAt) => validation.result

\* ------------------------------------------------------------------------
\* Claims about the registration guard
\* ------------------------------------------------------------------------
GuardReturned(op) == call.op = op /\ call.outcome = "returned"

RegistrationsInWindow(userId) ==
  Cardinality({r \in registrations : r.userId = userId /\ r.at >= now - DayMs})

\* C2: with 10 or more registrations of the subject in the trailing 24 hours
\* checkRegistrationRateLimit returns allowed = false with the rate-limit
\* message and performEventSecurityCheck returns allowed = false; with fewer
\* than 10 the rate-limit check returns allowed = true.
C2_TenRegistrationsDenied ==
  /\ GuardReturned("checkRegistrationRateLimit") =>
       IF RegistrationsInWindow(call.userId) >= 10
         THEN ~call.res.allowed /\ call.res.message = RateLimitMessage
         ELSE call.res.allowed
  /\ GuardReturned("performEventSecurityCheck") =>
       (RegistrationsInWindow(call.userId) >= 10 => ~call.res.allowed)

IssuedAt == issued.accessToken[3]

\* C17: validateEventAccessToken accepts the token issued for the pair it
\* is presented with exactly when the clock at validation shows the
\* millisecond of issuance; every validation after that millisecond fails.
C17_AcceptedInIssuingMillisecondOnly ==
  ValidatedOwnToken => (validation.result <=> validation.at = IssuedAt)

\* C17 witness: the token was validated in the millisecond it was issued
\* in, and accepted.
C17_Witness ==
  ValidatedOwnToken /\ validation.at = IssuedAt /\ validation.result

\* The issued token was presented for validation.
ValidatedIssuedToken ==
  /\ validation # NoValidation /\ issued # NoToken
  /\ validation.token = issued.accessToken

\* C28: a token issued for (eventId, userId) is never accepted for another
\* eventId or another userId, whenever it is presented.
C28_TokenBoundToPair ==
  (ValidatedIssuedToken /\ validation.result) =>
    (validation.eventId = issued.eventId /\ validation.userId = issued.userId)

\* C28 witness: in the millisecond it was issued in, the token was presented
\* for another event or another user, and rejected.
C28_Witness ==
  /\ ValidatedIssuedToken /\ validation.at = IssuedAt
  /\ validation.eventId # issued.eventId \/ validation.userId # issued.userId
  /\ ~validation.result

\* ------------------------------------------------------------------------
\* Claims about registrations and the event service
\* ------------------------------------------------------------------------
\* C12: a subject is in an event's participants only after
\* performEventSecurityCheck has returned allowed = true for that subject
\* and event.
C12_RegisteredOnlyAfterGuard ==
  \A r \in registrations : <<r.userId, r.eventId>> \in cleared

RegisterOps == {"registerForEvent", "controllerRegisterForEvent"}

NoDuplicateParticipants ==
  \A e \in DOMAIN events :
    \A i, j \in 1..Len(events[e].participants) :
      i # j => events[e].participants[i] # events[e].participants[j]

\* C13: registering a user who is already among the event's participants
\* fails and leaves the events as they are, and no user is ever twice in
\* the participants of an event.
C13_NoDuplicateRegistration ==
  /\ [][(/\ call'.op \in RegisterOps
         /\ InSeq(call'.userId, findEvent(call'.eventId).participants))
        => (call'.outcome = "threw" /\ events' = events)]_vars
  /\ []NoDuplicateParticipants

\* C13 witness: a second registration of a participant was refused.
C13_Witness ==
  /\ call.op = "registerForEvent"
  /\ call.res = "Already registered for this event"
  /\ InSeq(call.userId, events[call.eventId].participants)

\* C14: updateEvent and cancelEvent called by a user who is not the
\* organizer of the event fail and leave the stored event unchanged.
C14_OnlyOrganizerChangesEvent ==
  [][(/\ call'.op \in {"updateEvent", "cancelEvent"}
      /\ findEvent(call'.eventId).found
      /\ call'.userId # findEvent(call'.eventId).organizer)
     => (call'.outcome = "threw" /\ events' = events)]_vars

\* C14 witness: a published event with participants was not cancelled for
\* a user who is not its organizer.
C14_Witness ==
  /\ call.op = "cancelEvent"
  /\ call.res = "Unauthorized to cancel this event"
  /\ call.userId # events[call.eventId].organizer
  /\ events[call.eventId].status = "published"
  /\ events[call.eventId].participants # <<>>

\* C15: registerForEvent on the event createEvent has just returned, which
\* has free capacity and no participants, succeeds, and the user is among
\* the participants of the event it returns.
C15_RegisterOnNewEvent ==
  [][(/\ call.op = "createEvent" /\ call.outcome = "returned"
      /\ call'.op = "registerForEvent" /\ call'.eventId = call.eventId
      /\ ~InSeq(call'.userId, findEvent(call'.eventId).participants))
     => (/\ call'.outcome = "returned"
         /\ InSeq(call'.userId, events'[call'.eventId].participants))]_vars

\* The participants of the event whose user document records the address.
ParticipantsOnAddress(event, ip) ==
  {i \in 1..Len(event.participants) :
     /\ event.participants[i] \in DOMAIN users
     /\ users[event.participants[i]].ipAddress = ip}

\* The addresses recorded for participants of the event.
RecordedAddresses(event) ==
  {users[event.participants[i]].ipAddress :
     i \in {j \in 1..Len(event.participants) : event.participants[j] \in DOMAIN users}}
  \ {None}

C27_OnlyPublishedEventsGrow ==
  [][\A e \in DOMAIN events :
       Len(events'[e].participants) > Len(events[e].participants)
         => events[e].status = "published"]_vars

\* C26: however concurrent registration requests for an event interleave,
\* an event with a capacity never has more participants than its capacity:
\* remainingCapacity is never negative.
C26_CapacityNeverExceeded ==
  \A e \in DOMAIN events :
    events[e].capacity # 0 => events[e].capacity - Len(events[e].participants) >= 0

\* C30: the events of the in-memory /crud store have pairwise distinct ids.
C30_CrudIdsDistinct ==
  \A i, j \in 1..Len(crud) : i # j => crud[i].id # crud[j].id

\* ------------------------------------------------------------------------
\* Claims about the audit log and the detectors
\* ------------------------------------------------------------------------
\* The failed audit documents of the trailing 24 hours.
FailedInWindow == SelectSeq(audit, LAMBDA d : d.timestamp >= now - DayMs /\ ~d.success)

\* The addresses the claim calls suspicious: more than 10 failed documents or
\* more than 3 distinct subjects among them.
SuspiciousIPsByThresholds ==
  {ip \in {FailedInWindow[i].ipAddress : i \in 1..Len(FailedInWindow)} :
     \/ Len(SelectSeq(FailedInWindow, LAMBDA d : d.ipAddress = ip)) > 10
     \/ Cardinality({FailedInWindow[i].userId :
                       i \in {j \in 1..Len(FailedInWindow) :
                                FailedInWindow[j].ipAddress = ip}}) > 3}

\* C6: detectIPBasedFraud, when its reads succeed, returns in suspiciousIPs
\* exactly the addresses that have more than 10 failed audit documents or
\* more than 3 distinct subjects among the failed documents of the trailing
\* 24 hours.
C6_SuspiciousIPsByThresholds ==
  (call.op = "detectIPBasedFraud" /\ call.dbUp) =>
    /\ call.outcome = "returned"
    /\ {g.ip : g \in call.res.suspiciousIPs} = SuspiciousIPsByThresholds

\* The detection calls and the action each of them hands to log.
FindingsAction ==
  [detectSuspiciousUserActivity |-> "ADVANCED_RISK_ASSESSMENT",
   detectIPBasedFraud |-> "IP_FRAUD_DETECTION",
   detectAnomalies |-> "ANOMALY_DETECTION",
   runComprehensiveFraudCheck |-> "COMPREHENSIVE_FRAUD_CHECK"]

\* C11: every detection call that returns a result while the audit store
\* is available leaves one new document in the audit log, the one that
\* records its findings.
C11_DetectionEmitsAuditEntry ==
  [][(/\ now' = now
      /\ call'.op \in DOMAIN FindingsAction
      /\ call'.outcome = "returned" /\ call'.auditUp)
     => (/\ Len(audit') = Len(audit) + 1
         /\ audit'[Len(audit')].action = FindingsAction[call'.op])]_vars

\* C16: runComprehensiveFraudCheck(userId), for a stored user and with its
\* reads succeeding, returns three labels: userActivityRisk is the level
\* detectSuspiciousUserActivity(userId) gives, ipFraudRisk is HIGH when an
\* address is flagged and LOW otherwise, anomalyRisk is MEDIUM when an
\* anomaly is found and LOW otherwise.
C16_ThreeIndependentLabels ==
  (/\ call.op = "runComprehensiveFraudCheck"
   /\ call.dbUp /\ findUser(call.userId).found)
  => /\ call.outcome = "returned"
     /\ call.res.userActivityRisk =
          detectSuspiciousUserActivity(call.userId, TRUE, TRUE).res.riskLevel
     /\ call.res.ipFraudRisk =
          (IF SuspiciousIPsByThresholds # {} THEN "HIGH" ELSE "LOW")
     /\ \E baseline \in Baselines :
          call.res.anomalyRisk =
            (IF detectAnomalies(baseline, TRUE, TRUE).res.anomalies # {}
               THEN "MEDIUM" ELSE "LOW")

\* The subject's audit documents of the trailing 24 hours.
WindowEvents(userId) ==
  SelectSeq(audit, LAMBDA d : d.userId = userId /\ d.timestamp >= now - DayMs)

\* The distinct values the documents carry, a missing value not counted.
DistinctDevices(docs) == {docs[i].details.userAgent : i \in 1..Len(docs)} \ {None}
DistinctLocations(docs) == {docs[i].details.location : i \in 1..Len(docs)} \ {None}

C24_GuardUsesRiskScorer ==
  GuardReturned("assessRegistrationRisk") =>
    LET riskScore == calculateRiskScore(findUser(call.userId),
                                        WindowEvents(call.userId), now)
    IN  /\ call.res.riskScore * Pt = riskScore
        /\ call.res.riskLevel = determineRiskLevel(riskScore)

DetectedTwice ==
  /\ GuardReturned("detectSuspiciousUserActivity")
  /\ earlier.op = "detectSuspiciousUserActivity" /\ earlier.outcome = "returned"
  /\ earlier.userId = call.userId

RECURSIVE SumOver(_, _)
SumOver(f, S) ==
  IF S = {} THEN 0
  ELSE LET x == CHOOSE x \in S : TRUE IN f[x] + SumOver(f, S \ {x})

\* |x - average of f over S| > limit, for a non-empty S, without fractions.
DeviatesFromAverage(x, f, S, limit) ==
  Abs(Cardinality(S) * x - SumOver(f, S)) > limit * Cardinality(S)

\* The accounts the claim flags: those whose login count is more than 3
\* from the average login count of the active accounts, or whose number of
\* event registrations is more than 2 from their average number of
\* registered events.
AnomaliesByPopulationAverage ==
  LET active == activeUsers
      counted == {id \in active : users[id].loginCount.set}
      logins == [id \in counted |-> users[id].loginCount.n]
      registered == [id \in active |-> users[id].registeredEvents]
  IN  {id \in active :
         \/ /\ id \in counted
            /\ DeviatesFromAverage(users[id].loginCount.n, logins, counted, 3)
         \/ DeviatesFromAverage(recentEventCount(id), registered, active, 2)}

\* C21: detectAnomalies returns exactly the active accounts whose login
\* count deviates by more than 3, or whose event-registration count deviates
\* by more than 2, from the average over all accounts active in the
\* trailing 30 days.
C21_AnomaliesAgainstPopulationAverage ==
  [][(/\ now' = now
      /\ call'.op = "detectAnomalies" /\ call'.outcome = "returned")
     => call'.res.anomalies = AnomaliesByPopulationAverage]_vars

\* The composite that failed gave its caller the error and no report.
NoPartialReport ==
  /\ flight.state = "rejected" =>
       (call.op = flight.op /\ call.outcome = "threw" /\ call.res = <<>>)
  /\ flight.state = "resolved" => \A k \in 1..3 : flight.tasks[k].pc = "done"

\* A sub-check that is under way can take its next step whatever the other
\* two have done and however the composite has settled, and the failure of
\* one changes nothing about the other two.
SubChecksNotCancelled ==
  /\ [](\A k \in 1..3 :
          /\ flight.tasks[k].pc = "reading" => ENABLED SubCheckReads(k)
          /\ flight.tasks[k].pc = "logging" => ENABLED SubCheckLogs(k))
  /\ [][\A k \in 1..3 :
          (flight'.tasks[k].pc = "failed" /\ flight.tasks[k].pc # "failed")
            => \A j \in 1..3 \ {k} : flight'.tasks[j] = flight.tasks[j]]_vars
  /\ [][(flight.state = "pending" /\ flight'.state = "rejected")
          => flight'.tasks = flight.tasks]_vars

\* A sub-check that made its log call while the audit store was available
\* left its document in the audit log.
AuditWritesDone ==
  \A k \in 1..3 :
    (flight.tasks[k].pc = "done" /\ flight.tasks[k].logUp) => flight.tasks[k].wrote

\* A sub-check went through its log call and returned after the composite
\* had rejected.
FinishedAfterRejection ==
  /\ flight.state = "rejected"
  /\ \E k \in 1..3 :
       /\ flight.tasks[k].pc = "done" /\ flight.tasks[k].late
       /\ logsFindings(flight.tasks[k].name, flight.tasks[k].res)

\* C23: the three sub-checks of runComprehensiveFraudCheck and of
\* performEventSecurityCheck have no ordering dependency; when one fails the
\* other two are not cancelled and run to completion, their audit writes
\* included, and the composite fails without a report.
C23_SubChecksRunToCompletion ==
  /\ []NoPartialReport
  /\ SubChecksNotCancelled
  /\ []AuditWritesDone

\* C9: the audit log is append-only: whatever operation runs, every document
\* stored before it is stored after it, at the same place and with the same
\* field values.
C9_AuditLogAppendOnly ==
  [][/\ Len(audit') >= Len(audit)
     /\ SubSeq(audit', 1, Len(audit)) = audit]_vars

\* C9 witness: a detector has run over a log that holds documents of two
\* log calls.
C9_Witness ==
  /\ Len(audit) >= 2
  /\ call.op = "detectSuspiciousUserActivity" /\ call.outcome = "returned"
  /\ Len(call.res.suspiciousActivities) >= 1

\* The calls that decide or assess and write an audit document.
DecisionOps ==
  {"checkRegistrationRateLimit", "assessRegistrationRisk",
   "performEventSecurityCheck", "detectSuspiciousUserActivity",
   "detectIPBasedFraud", "detectAnomalies", "runComprehensiveFraudCheck"}

\* C10: log never raises to its caller, and a call that decides gives the
\* same outcome and the same result whether its audit write succeeds or
\* fails.
C10_AuditFailureChangesNoDecision ==
  /\ call.op = "log" => call.outcome = "returned"
  /\ call.op \in DecisionOps =>
       call.twin = [outcome |-> call.outcome, res |-> call.res]

\* C10 witness: a registration over the limit was denied while the audit
\* write of the denial failed.
C10_Witness ==
  /\ GuardReturned("checkRegistrationRateLimit")
  /\ ~call.auditUp /\ call.dbUp
  /\ ~call.res.allowed

\* ------------------------------------------------------------------------
\* Claims about the scorer
\* ------------------------------------------------------------------------
Scored == assessment.outcome = "returned"

\* C3: for every account age and every list of activity events the score
\* calculateRiskScore returns lies in [0, 10].
C3_ScoreInRange ==
  Scored => (0 <= assessment.score /\ assessment.score <= 10 * Pt)

\* C3 witness: a scored list of events that reaches the upper end, 10.
C3_Witness ==
  Scored /\ Len(activities) > 0 /\ assessment.score = 10 * Pt

Rank(level) == CHOOSE i \in 1..4 : Levels[i] = level

\* The thresholds as the claim states them, on a score in half points.
LevelByThreshold(s) ==
  CASE s <= 2 * Pt -> "LOW"
    [] 2 * Pt < s /\ s <= 5 * Pt -> "MEDIUM"
    [] 5 * Pt < s /\ s <= 7 * Pt -> "HIGH"
    [] s > 7 * Pt -> "CRITICAL"

\* C4: the level is the function of the score given by the thresholds
\* (<= 2 LOW, <= 5 MEDIUM, <= 7 HIGH, else CRITICAL) and never decreases
\* when the score grows: no smaller score has a higher level.
C4_LevelByThresholds ==
  Scored =>
    /\ assessment.level = LevelByThreshold(assessment.score)
    /\ \A s \in 0..assessment.score :
         Rank(determineRiskLevel(s)) <= Rank(assessment.level)

\* C4 witness: a series of assessments has produced every one of the four
\* levels from scores calculateRiskScore returned.
C4_Witness ==
  Scored /\ levelsSeen = {"LOW", "MEDIUM", "HIGH", "CRITICAL"}

\* Whole days since the account was created.
AgeDays(user, clock) == (clock \div DayMs) - user.createdDay

\* The score the claim gives to an account by its age alone, in half points.
AgeOnlyScore(user, clock) ==
  IF AgeDays(user, clock) < 30 THEN 5 * Pt
  ELSE IF AgeDays(user, clock) < 60 THEN 2 * Pt
  ELSE 0

LoginIndexes(acts) == {i \in 1..Len(acts) : acts[i].action = "LOGIN_ATTEMPT"}

\* The login that precedes login i in the list.
PrevLogin(acts, i) ==
  CHOOSE j \in LoginIndexes(acts) :
    j < i /\ \A k \in LoginIndexes(acts) : k < i => k <= j

\* The gaps between consecutive logins that are shorter than 60 seconds or
\* longer than 24 hours.
IrregularGaps(acts) ==
  {i \in LoginIndexes(acts) :
     /\ \E j \in LoginIndexes(acts) : j < i
     /\ LET gap == Abs(acts[i].timestamp - acts[PrevLogin(acts, i)].timestamp)
        IN  gap < 60000 \/ gap > 86400000}

\* No activity signal fires on the list: no failed login, at most 3 distinct
\* locations and 3 distinct devices, and the time-pattern signal silent as
\* the scorer evaluates it (the first login counts as one irregular gap).
QuietHistory(acts) ==
  /\ \A i \in LoginIndexes(acts) : acts[i].success
  /\ Cardinality({acts[i].details.location : i \in 1..Len(acts)} \ {None}) <= 3
  /\ Cardinality({acts[i].details.userAgent : i \in 1..Len(acts)} \ {None}) <= 3
  /\ Cardinality(IrregularGaps(acts))
       + (IF LoginIndexes(acts) = {} THEN 0 ELSE 1) <= 2

\* The number of failed login attempts in the list.
FailedAttempts(acts) ==
  Cardinality({i \in LoginIndexes(acts) : ~acts[i].success})

\* min(0.5 * n, 2) in half points: n up to 4 attempts, 2 points from then on.
FailedLoginContribution(n) == IF n >= 4 THEN 2 * Pt ELSE n

\* The location and the device signal, one point each.
PlaceSignals(acts) ==
    (IF Cardinality(uniqueLoginLocations(acts)) > 3 THEN Pt ELSE 0)
  + (IF Cardinality(uniqueDevices(acts)) > 3 THEN Pt ELSE 0)

\* The time-pattern signal as the scorer evaluates it.
TimeSignal(acts) == IF Len(irregularTimePatterns(acts)) > 2 THEN Pt ELSE 0

\* C18: the failed logins add min(0.5 * n, 2) to the score, n the number of
\* failed login attempts in the list: the score is the sum of the age
\* part, that contribution and the other signals, cut at 10.
C18_FailedLoginsCappedAtTwo ==
  Scored =>
    assessment.score =
      Min(AgeOnlyScore(subject, now)
            + FailedLoginContribution(FailedAttempts(activities))
            + PlaceSignals(activities) + TimeSignal(activities),
          10 * Pt)

\* C18 witness: five failed attempts were scored, and the score is below
\* 10, so that the contribution of 2 shows in it.
C18_Witness ==
  /\ Scored /\ FailedAttempts(activities) >= 5
  /\ assessment.score < 10 * Pt
  /\ assessment.score =
       AgeOnlyScore(subject, now) + 2 * Pt
         + PlaceSignals(activities) + TimeSignal(activities)

\* C19: the time-pattern signal adds 1 to the score if and only if more
\* than 2 of the gaps between consecutive logins are irregular: the score
\* is the sum of the age part, the failed-login part, the location and
\* device signals and that point, cut at 10.
C19_MoreThanTwoIrregularGaps ==
  Scored =>
    assessment.score =
      Min(AgeOnlyScore(subject, now)
            + FailedLoginContribution(FailedAttempts(activities))
            + PlaceSignals(activities)
            + (IF Cardinality(IrregularGaps(activities)) > 2 THEN Pt ELSE 0),
          10 * Pt)

====
